---- MODULE Spec2Model ----
(***************************************************************************)
(* A model of the AiAssistant repository: the finance ledger               *)
(* (agents/finance.py), the habit tracker (agents/goals.py) and the        *)
(* tool-calling loop of the orchestrator (agents/orchestrator.py).         *)
(*                                                                         *)
(* Files are sequences of lines (every line of a file the code writes ends *)
(* with a newline); lines are strings, and the string functions of Python  *)
(* the code uses (lower, strip, replace, split, startswith, in, re.search) *)
(* are operators over the characters of a string.                          *)
(***************************************************************************)
EXTENDS Integers, Sequences, FiniteSets, TLC

VARIABLES
    now,        \* index into Times: the value datetime.now() returns
    files,      \* vault/Finance: month ("2025-11") -> lines of the file, or NoFile
    last,       \* the last finance operation: its inputs, what it read, what it returned
    tracker,    \* vault/Goals/Habit-Tracker.md: its lines
    today,      \* index into Days: the date datetime.now() returns to log_habit
    habitCalls, \* the log_habit calls made so far, each with the streak it computed
    sessions,   \* OrchestratorAgent.sessions: sender -> the turns sent through its chat
    pc,         \* where process_message stands: idle, awaiting, executing, done
    sender,     \* the sender of the message being handled
    response,   \* the model response being examined: its parts
    events,     \* what the handling of the current message did so far, in order
    outcome,    \* how process_message ended
    handled,    \* the messages received so far
    tasks       \* the webhook requests on the event loop: request -> where its handler stands

finVars == <<now, files, last>>
goalVars == <<tracker, today, habitCalls>>
loopVars == <<sessions, pc, sender, response, events, outcome, handled>>
vars == <<now, files, last, tracker, today, habitCalls,
          sessions, pc, sender, response, events, outcome, handled, tasks>>

\* the orchestrator before its first message
Senders == {"A", "B"}
\* id tells one chat handle from another: the number of the message that created it
NoSession == [exists |-> FALSE, id |-> 0, turns |-> <<>>]
NoOutcome == [kind |-> "none", text |-> ""]
LoopIdle ==
    /\ sessions = [s \in Senders |-> NoSession]
    /\ pc = "idle"
    /\ sender = ""
    /\ response = <<>>
    /\ events = <<>>
    /\ outcome = NoOutcome
    /\ handled = 0

----------------------------------------------------------------------------
(* Bounds of the model *)

\* webhook requests received in one behaviour of the event loop
MaxRequests == 2

\* data rows the ledger files may hold together before log_transaction is no longer taken
MaxRows == 3
\* log_habit calls in one behaviour
MaxHabitCalls == 4
\* messages received in one behaviour
MaxMessages == 2
\* tool requests the model makes while one message is handled
MaxToolCalls == 2

\* the webhook requests, and the event loop before the first of them
Requests == 1..MaxRequests
NoFileRead == [exists |-> FALSE, lines |-> <<>>]
NoTask == [pc |-> "none", op |-> [tool |-> ""], content |-> NoFileRead,
           stale |-> FALSE, arrivedDuring |-> FALSE]
NoTasks == [t \in Requests |-> NoTask]

----------------------------------------------------------------------------
(* Python's string functions *)

Char(s, i) == SubSeq(s, i, i)

Digit == {"0", "1", "2", "3", "4", "5", "6", "7", "8", "9"}

\* str.startswith
StartsWith(s, p) == Len(p) <= Len(s) /\ SubSeq(s, 1, Len(p)) = p

\* the `in` operator of two strings: t occurs in s
Contains(s, t) == \E i \in 1..(Len(s) - Len(t) + 1) : SubSeq(s, i, i + Len(t) - 1) = t

\* the first index at which t occurs in s, 0 when it does not
IndexOf(s, t) ==
    IF Contains(s, t)
    THEN CHOOSE i \in 1..(Len(s) - Len(t) + 1) :
            /\ SubSeq(s, i, i + Len(t) - 1) = t
            /\ \A j \in 1..(i - 1) : SubSeq(s, j, j + Len(t) - 1) # t
    ELSE 0

\* the upper-case letters and their lower-case forms
UpperCase == "ABCDEFGHIJKLMNOPQRSTUVWXYZ"
LowerCase == "abcdefghijklmnopqrstuvwxyz"
LowerOf == [c \in {Char(UpperCase, i) : i \in 1..Len(UpperCase)} |->
               Char(LowerCase, CHOOSE i \in 1..Len(UpperCase) : Char(UpperCase, i) = c)]
LowerChar(c) == IF c \in DOMAIN LowerOf THEN LowerOf[c] ELSE c

RECURSIVE Lower(_)
\* str.lower
Lower(s) == IF s = "" THEN "" ELSE LowerChar(Head(s)) \o Lower(Tail(s))

\* the characters str.strip removes (of Python's whitespace, those a string of
\* the model can hold)
Whitespace == {" ", "\t", "\n", "\r", "\f"}

RECURSIVE LStrip(_)
LStrip(s) == IF s # "" /\ Head(s) \in Whitespace THEN LStrip(Tail(s)) ELSE s

RECURSIVE RStrip(_)
RStrip(s) ==
    IF s # "" /\ Char(s, Len(s)) \in Whitespace
    THEN RStrip(SubSeq(s, 1, Len(s) - 1))
    ELSE s

\* str.strip
Strip(s) == LStrip(RStrip(s))

RECURSIVE Replace(_, _)
\* str.replace(old, ""): every occurrence of old, left to right, removed
Replace(s, old) ==
    LET i == IndexOf(s, old)
    IN  IF i = 0 THEN s
        ELSE SubSeq(s, 1, i - 1) \o Replace(SubSeq(s, i + Len(old), Len(s)), old)

RECURSIVE Split(_, _)
\* str.split(sep) for a one-character sep
Split(s, sep) ==
    LET i == IndexOf(s, sep)
    IN  IF i = 0 THEN <<s>>
        ELSE <<SubSeq(s, 1, i - 1)>> \o Split(SubSeq(s, i + 1, Len(s)), sep)

RECURSIVE DigitRun(_, _)
\* the end of the run of digits of s that starts at i (i - 1 when s[i] is no digit)
DigitRun(s, i) ==
    IF i <= Len(s) /\ Char(s, i) \in Digit THEN DigitRun(s, i + 1) ELSE i - 1

\* re.search(r'\d+(\.\d+)?', s): the matched text, "" when nothing matches
SearchNumber(s) ==
    IF \A i \in 1..Len(s) : Char(s, i) \notin Digit THEN ""
    ELSE LET b == CHOOSE i \in 1..Len(s) :
                    /\ Char(s, i) \in Digit
                    /\ \A j \in 1..(i - 1) : Char(s, j) \notin Digit
             e == DigitRun(s, b)
             f == IF e + 2 <= Len(s) /\ Char(s, e + 1) = "." /\ Char(s, e + 2) \in Digit
                  THEN DigitRun(s, e + 2)
                  ELSE e
         IN  SubSeq(s, b, f)

DigitChar(d) ==
    CASE d = 0 -> "0" [] d = 1 -> "1" [] d = 2 -> "2" [] d = 3 -> "3" [] d = 4 -> "4"
      [] d = 5 -> "5" [] d = 6 -> "6" [] d = 7 -> "7" [] d = 8 -> "8" [] d = 9 -> "9"

RECURSIVE Decimal(_)
\* str() of a non-negative int
Decimal(n) == IF n < 10 THEN DigitChar(n) ELSE Decimal(n \div 10) \o DigitChar(n % 10)

\* %m, %d, %H, %M of strftime: two digits
Pad2(n) == IF n < 10 THEN "0" \o Decimal(n) ELSE Decimal(n)

\* f"{amount}" for a float holding a whole number
FloatStr(n) == Decimal(n) \o ".0"

\* [p.strip() for p in line.split("|") if p.strip()]
Fields(line) ==
    LET parts == Split(line, "|")
        keep == SelectSeq(parts, LAMBDA p : Strip(p) # "")
    IN  [i \in 1..Len(keep) |-> Strip(keep[i])]

\* a sequence without its element at index i
RemoveAt(seq, i) == SubSeq(seq, 1, i - 1) \o SubSeq(seq, i + 1, Len(seq))

----------------------------------------------------------------------------
(* datetime.now() *)

Times == <<
    [y |-> 2025, mo |-> 10, d |-> 31, h |-> 9, mi |-> 5],
    [y |-> 2025, mo |-> 11, d |-> 4, h |-> 8, mi |-> 45] >>

MonthName(mo) ==
    CASE mo = 1 -> "January" [] mo = 2 -> "February" [] mo = 3 -> "March"
      [] mo = 4 -> "April" [] mo = 5 -> "May" [] mo = 6 -> "June"
      [] mo = 7 -> "July" [] mo = 8 -> "August" [] mo = 9 -> "September"
      [] mo = 10 -> "October" [] mo = 11 -> "November" [] mo = 12 -> "December"

\* strftime("%Y-%m")
FmtMonth(t) == Decimal(t.y) \o "-" \o Pad2(t.mo)
\* strftime("%Y-%m-%d")
FmtDate(t) == FmtMonth(t) \o "-" \o Pad2(t.d)
\* strftime("%Y-%m-%d %H:%M")
FmtDateTime(t) == FmtDate(t) \o " " \o Pad2(t.h) \o ":" \o Pad2(t.mi)
\* strftime("%B %Y")
FmtMonthYear(t) == MonthName(t.mo) \o " " \o Decimal(t.y)

Months == {FmtMonth(Times[i]) : i \in 1..Len(Times)}

\* the clock moves on between two operations
Tick ==
    /\ now < Len(Times)
    /\ now' = now + 1
    /\ UNCHANGED <<files, last, tracker, today, habitCalls>>
    /\ UNCHANGED loopVars
    /\ UNCHANGED tasks

----------------------------------------------------------------------------
(* agents/finance.py *)

NoFile == [exists |-> FALSE, lines |-> <<>>]

\* a file chosen once and kept when the month changes
get_first_month_file(t) == FmtMonth(Times[1])

\* FinanceAgent._get_current_month_file: the key of the file of the current month
get_current_month_file(t) == FmtMonth(Times[t])

\* the text _ensure_file_exists writes, as lines
FinanceHeader(t) == <<
    "---",
    "type: finance_log",
    "status: active",
    "created: " \o FmtDate(Times[t]),
    "---",
    "",
    "# Financial Log: " \o FmtMonthYear(Times[t]),
    "",
    "| Date | Type | Category | Description | Amount | Currency |",
    "| :--- | :--- | :--- | :--- | :--- | :--- |" >>

\* an _ensure_file_exists that writes the header whether the file exists or not
ensure_file_overwrite(f, t) == [exists |-> TRUE, lines |-> FinanceHeader(t)]

\* FinanceAgent._ensure_file_exists
ensure_file_exists(f, t) ==
    IF f.exists THEN f ELSE [exists |-> TRUE, lines |-> FinanceHeader(t)]

AnyIn(words, s) == \E w \in words : Contains(s, w)

\* the category inference of log_transaction
InferCategory(description, category) ==
    LET desc_lower == Lower(description)
    IN  IF category # "General" THEN category
        ELSE IF AnyIn({"uber", "taxi", "bus", "train", "gas"}, desc_lower) THEN "Transport"
        ELSE IF AnyIn({"food", "lunch", "dinner", "groceries", "market", "arepa"}, desc_lower)
             THEN "Food"
        ELSE IF AnyIn({"netflix", "spotify", "movie", "game"}, desc_lower) THEN "Entertainment"
        ELSE IF AnyIn({"salary", "freelance", "client"}, desc_lower) THEN "Income"
        ELSE category

\* the row log_transaction appends (without its newline)
TransactionRow(t, description, amount, type, category, currency) ==
    "| " \o FmtDateTime(Times[t]) \o " | " \o type \o " | " \o category \o " | "
         \o description \o " | " \o FloatStr(amount) \o " | " \o currency \o " |"

\* a log_transaction that does not write a row the file already ends with
log_transaction_once(f, t, description, amount, type, category, currency) ==
    LET g == ensure_file_exists(f, t)
        cat == InferCategory(description, category)
        row == TransactionRow(t, description, amount, type, cat, currency)
    IN  [file |-> IF g.lines[Len(g.lines)] = row THEN g
                  ELSE [g EXCEPT !.lines = Append(g.lines, row)],
         result |-> "Transaction logged: " \o type \o " of " \o FloatStr(amount) \o " "
                    \o currency \o " for '" \o description \o "' (" \o cat \o ")."]

\* FinanceAgent.log_transaction: the file it leaves and the string it returns
log_transaction(f, t, description, amount, type, category, currency) ==
    LET g == ensure_file_exists(f, t)
        cat == InferCategory(description, category)
        row == TransactionRow(t, description, amount, type, cat, currency)
    IN  [file |-> [g EXCEPT !.lines = Append(g.lines, row)],
         result |-> "Transaction logged: " \o type \o " of " \o FloatStr(amount) \o " "
                    \o currency \o " for '" \o description \o "' (" \o cat \o ")."]

\* the criteria of delete_specific_transaction after preprocessing
CleanCriteria(criteria) ==
    Strip(Replace(Replace(Replace(Replace(Lower(criteria), "$"), ","), "usd"), "cop"))

\* a skip test that lets the separator line through
SkippedLineButSeparator(line) ==
    \/ StartsWith(line, "| Date")
    \/ Strip(line) = ""
    \/ StartsWith(line, "#")
    \/ StartsWith(line, "---")
    \/ StartsWith(line, "type:")

\* the lines the scan of delete_specific_transaction skips
SkippedLine(line) ==
    \/ StartsWith(line, "| Date")
    \/ StartsWith(line, "| :---")
    \/ Strip(line) = ""
    \/ StartsWith(line, "#")
    \/ StartsWith(line, "---")
    \/ StartsWith(line, "type:")

\* the two checks of the scan: the number, else the whole criteria
LineMatches(line, clean_criteria, criteria_number) ==
    LET line_lower == Lower(line)
    IN  IF criteria_number # "" /\ Contains(line_lower, criteria_number) THEN TRUE
        ELSE Contains(line_lower, clean_criteria)

\* match_index after the scan: the last line the scan matched, 0 for none
MatchIndexFirst(lines, criteria) ==
    LET clean == CleanCriteria(criteria)
        number == SearchNumber(clean)
        hits == {i \in 1..Len(lines) :
                    ~SkippedLine(lines[i]) /\ LineMatches(lines[i], clean, number)}
    IN  IF hits = {} THEN 0 ELSE CHOOSE i \in hits : \A j \in hits : i <= j

MatchIndex(lines, criteria) ==
    LET clean == CleanCriteria(criteria)
        number == SearchNumber(clean)
        hits == {i \in 1..Len(lines) :
                    ~SkippedLine(lines[i]) /\ LineMatches(lines[i], clean, number)}
    IN  IF hits = {} THEN 0 ELSE CHOOSE i \in hits : \A j \in hits : j <= i

\* FinanceAgent.delete_specific_transaction
delete_specific_transaction(f, criteria) ==
    IF ~f.exists
    THEN [file |-> f, result |-> "No transaction file found for this month."]
    ELSE LET match_index == MatchIndex(f.lines, criteria)
         IN  IF match_index # 0
             THEN [file |-> [f EXCEPT !.lines = RemoveAt(f.lines, match_index)],
                   result |-> "Successfully deleted transaction: " \o f.lines[match_index]]
             ELSE [file |-> f,
                   result |-> "No matching transaction found for '" \o criteria \o "'."]

\* the test of the backward scan of undo_last_transaction
IsUndoable(line) ==
    /\ Strip(line) # ""
    /\ StartsWith(line, "|")
    /\ ~StartsWith(line, "| Date")
    /\ ~StartsWith(line, "| :---")

\* an undo whose scan runs forwards and removes the first row
undo_first_transaction(f) ==
    IF ~f.exists
    THEN [file |-> f, result |-> "No transaction file found."]
    ELSE LET hits == {i \in 1..Len(f.lines) : IsUndoable(f.lines[i])}
         IN  IF hits = {}
             THEN [file |-> f, result |-> "No transactions found to undo."]
             ELSE LET i == CHOOSE k \in hits : \A j \in hits : k <= j
                  IN  [file |-> [f EXCEPT !.lines = RemoveAt(f.lines, i)],
                       result |-> "Undid last transaction: " \o f.lines[i]]

\* FinanceAgent.undo_last_transaction
undo_last_transaction(f) ==
    IF ~f.exists
    THEN [file |-> f, result |-> "No transaction file found."]
    ELSE LET hits == {i \in 1..Len(f.lines) : IsUndoable(f.lines[i])}
         IN  IF hits = {}
             THEN [file |-> f, result |-> "No transactions found to undo."]
             ELSE LET i == CHOOSE k \in hits : \A j \in hits : j <= k
                  IN  [file |-> [f EXCEPT !.lines = RemoveAt(f.lines, i)],
                       result |-> "Undid last transaction: " \o f.lines[i]]

\* dict(zip(headers, values)): of two columns of one name the later one stays
Zip(headers, values) ==
    [h \in {headers[i] : i \in 1..Len(headers)} |->
        values[CHOOSE i \in 1..Len(headers) :
                   headers[i] = h /\ \A j \in (i + 1)..Len(headers) : headers[j] # h]]

\* one pass of the loop of _parse_markdown_table over a line
ParseLine(st, raw) ==
    LET line == Strip(raw)
    IN  IF line = "" \/ ~StartsWith(line, "|") THEN st
        ELSE IF Contains(line, "Date") /\ st.headers = <<>>
             THEN [st EXCEPT !.headers = Fields(line)]
        ELSE IF Contains(line, ":---") THEN st
        ELSE IF st.headers # <<>> /\ Len(Fields(line)) = Len(st.headers)
             THEN [st EXCEPT !.rows = Append(@, Zip(st.headers, Fields(line)))]
        ELSE st

\* a parser that takes the values of a row as they stand between the bars
parse_markdown_table_unstripped(lines) ==
    LET st[i \in 0..Len(lines)] ==
            IF i = 0 THEN [headers |-> <<>>, rows |-> <<>>]
            ELSE LET line == lines[i]
                     values == SelectSeq(Split(line, "|"), LAMBDA v : Strip(v) # "")
                 IN  IF StartsWith(line, "| 20") /\ st[i - 1].headers # <<>>
                     THEN [st[i - 1] EXCEPT !.rows = Append(@, Zip(st[i - 1].headers, values))]
                     ELSE ParseLine(st[i - 1], line)
    IN  st[Len(lines)].rows

\* a parser that stops at the first row whose field count is not the header's
parse_markdown_table_strict(lines) ==
    LET st[i \in 0..Len(lines)] ==
            IF i = 0 THEN [headers |-> <<>>, rows |-> <<>>, stopped |-> FALSE]
            ELSE LET line == lines[i]
                     before == st[i - 1]
                 IN  IF before.stopped THEN before
                     ELSE IF /\ StartsWith(line, "| 20")
                             /\ Len(Fields(line)) # Len(before.headers)
                          THEN [before EXCEPT !.stopped = TRUE]
                     ELSE ParseLine(before, line)
    IN  st[Len(lines)].rows

\* FinanceAgent._parse_markdown_table, applied to the lines of a file
parse_markdown_table(lines) ==
    LET st[i \in 0..Len(lines)] ==
            IF i = 0 THEN [headers |-> <<>>, rows |-> <<>>]
            ELSE ParseLine(st[i - 1], lines[i])
    IN  st[Len(lines)].rows

----------------------------------------------------------------------------
(* The tracker file GoalsAgent.__init__ leaves (agents/goals.py) *)

\* the text _ensure_tracker_exists writes, as lines (the emoji of the title and
\* of the comments are left out: no test of the code reads them)
TrackerHeader == <<
    "# Habit Tracker",
    "",
    "| Date | Habit | Status | Coach Comment |",
    "| :--- | :--- | :--- | :--- |" >>

\* GoalsAgent._ensure_tracker_exists, which GoalsAgent.__init__ calls
ensure_tracker_exists(f) ==
    IF f.exists THEN f ELSE [exists |-> TRUE, lines |-> TrackerHeader]

----------------------------------------------------------------------------
(* The finance ledger as a state machine *)

\* what the model (or a caller) passes to log_transaction
Transactions == {
    [description |-> "gas", amount |-> 10, category |-> "General"],
    [description |-> "Rent", amount |-> 20, category |-> "Home"],
    [description |-> "Rent", amount |-> 10, category |-> "Home"] }

\* what the model passes to delete_specific_transaction
Criteria == {"10", "$20", "USD", "Active", "gas"}

\* the lines of a file that are no line of the header _ensure_file_exists writes:
\* the rows log_transaction appended
IsDataRow(line) == IsUndoable(line)
DataRows(lines) == {i \in 1..Len(lines) : IsDataRow(lines[i])}
\* the data rows of all files together
TotalRows == LET RECURSIVE Sum(_)
                 Sum(S) == IF S = {} THEN 0
                           ELSE LET m == CHOOSE x \in S : TRUE
                                IN  Cardinality(DataRows(files[m].lines)) + Sum(S \ {m})
             IN  Sum(Months)

\* at is the time of the operation, tx what log_transaction was called with
NoTx == [description |-> "", amount |-> 0, category |-> ""]
NoOp == [op |-> "none", month |-> "", criteria |-> "", before |-> NoFile, result |-> "",
         at |-> 0, tx |-> NoTx]

FinInit ==
    /\ now = 1
    /\ files = [m \in Months |-> NoFile]
    /\ last = NoOp
    /\ tracker = TrackerHeader
    /\ today = 1
    /\ habitCalls = <<>>
    /\ LoopIdle
    /\ tasks = NoTasks

LogTransaction ==
    \E x \in Transactions :
        LET m == get_current_month_file(now)
            r == log_transaction(files[m], now, x.description, x.amount, "Expense",
                                 x.category, "USD")
        IN  /\ TotalRows < MaxRows
            /\ files' = [files EXCEPT ![m] = r.file]
            /\ last' = [op |-> "log", month |-> m, criteria |-> FloatStr(x.amount),
                        before |-> files[m], result |-> r.result, at |-> now, tx |-> x]
            /\ UNCHANGED <<now, goalVars>>
            /\ UNCHANGED loopVars
            /\ UNCHANGED tasks

DeleteSpecificTransaction ==
    \E criteria \in Criteria :
        LET m == get_current_month_file(now)
            r == delete_specific_transaction(files[m], criteria)
        IN  /\ files' = [files EXCEPT ![m] = r.file]
            /\ last' = [op |-> "delete", month |-> m, criteria |-> criteria,
                        before |-> files[m], result |-> r.result, at |-> now,
                        tx |-> NoTx]
            /\ UNCHANGED <<now, goalVars>>
            /\ UNCHANGED loopVars
            /\ UNCHANGED tasks

UndoLastTransaction ==
    LET m == get_current_month_file(now)
        r == undo_last_transaction(files[m])
    IN  /\ files' = [files EXCEPT ![m] = r.file]
        /\ last' = [op |-> "undo", month |-> m, criteria |-> "",
                    before |-> files[m], result |-> r.result, at |-> now, tx |-> NoTx]
        /\ UNCHANGED <<now, goalVars>>
        /\ UNCHANGED loopVars
        /\ UNCHANGED tasks

FinNext ==
    \/ Tick
    \/ LogTransaction
    \/ DeleteSpecificTransaction
    \/ UndoLastTransaction

FinanceSpec == FinInit /\ [][FinNext]_vars

\* transactions of which two make a row with another field count than the
\* header's: a description with a bar, and an empty description
LedgerTransactions == {
    [description |-> "gas", amount |-> 10, category |-> "General"],
    [description |-> "Rent", amount |-> 20, category |-> "Home"],
    [description |-> "a|b", amount |-> 10, category |-> "General"],
    [description |-> "", amount |-> 10, category |-> "General"] }

\* log_transaction called with such transactions
LogLedgerTransaction ==
    \E x \in LedgerTransactions :
        LET m == get_current_month_file(now)
            r == log_transaction(files[m], now, x.description, x.amount, "Expense",
                                 x.category, "USD")
        IN  /\ TotalRows < MaxRows
            /\ files' = [files EXCEPT ![m] = r.file]
            /\ last' = [op |-> "log", month |-> m, criteria |-> FloatStr(x.amount),
                        before |-> files[m], result |-> r.result, at |-> now, tx |-> x]
            /\ UNCHANGED <<now, goalVars>>
            /\ UNCHANGED loopVars
            /\ UNCHANGED tasks

LedgerNext ==
    \/ Tick
    \/ LogLedgerTransaction

LedgerSpec == FinInit /\ [][LedgerNext]_vars

----------------------------------------------------------------------------
(* agents/goals.py *)

\* the dates datetime.now() returns to log_habit, in order
Days == <<
    [y |-> 2025, mo |-> 11, d |-> 3],
    [y |-> 2025, mo |-> 11, d |-> 4],
    [y |-> 2025, mo |-> 11, d |-> 5],
    [y |-> 2025, mo |-> 11, d |-> 6] >>

\* the statuses for which log_habit computes a streak
SuccessStatuses == {"done", "completed", "yes", "new project started"}

\* the test of the scan for a row that continues the streak
CountsForStreak(habit, line) ==
    /\ Contains(line, habit)
    /\ (Contains(line, "Done") \/ Contains(line, "Yes") \/ Contains(line, "New Project"))

RECURSIVE StreakScanNoBreak(_, _, _)
StreakScanNoBreak(lines, i, habit) ==
    IF i = 0 THEN 0
    ELSE IF CountsForStreak(habit, lines[i]) THEN 1 + StreakScanNoBreak(lines, i - 1, habit)
    ELSE StreakScanNoBreak(lines, i - 1, habit)

RECURSIVE StreakScan(_, _, _)
\* the loop over reversed(lines), from line i down to the first
StreakScan(lines, i, habit) ==
    IF i = 0 THEN 0
    ELSE IF CountsForStreak(habit, lines[i]) THEN 1 + StreakScan(lines, i - 1, habit)
    ELSE IF Contains(lines[i], habit) THEN 0
    ELSE StreakScan(lines, i - 1, habit)

StreakWithToday(content, habit, status) ==
    IF Lower(status) \in SuccessStatuses
    THEN 1 + StreakScan(Append(content, ""), Len(content) + 1, habit)
    ELSE 0

\* the streak log_habit computes from the content it read; content.split('\n')
\* ends with the empty string that follows the last newline
Streak(content, habit, status) ==
    IF Lower(status) \in SuccessStatuses
    THEN StreakScan(Append(content, ""), Len(content) + 1, habit)
    ELSE 0

\* the coach comment of the new row
Comment(streak, status) ==
    IF streak > 2 THEN Decimal(streak) \o " day streak!"
    ELSE IF Lower(status) \in {"missed", "no", "fail"} THEN "Don't let this slide."
    ELSE "Keep pushing."

\* the lines the update loop passes over
NotARow(line) ==
    ~StartsWith(line, "|") \/ StartsWith(line, "| :---") \/ Contains(line, "Date")

\* the row the update loop replaces: the first row of today's date and this
\* habit, 0 when there is none
UpdateIndex(lines, date_str, habit) ==
    LET hits == {i \in 1..Len(lines) :
                    /\ ~NotARow(lines[i])
                    /\ LET parts == Fields(lines[i])
                       IN  Len(parts) >= 4 /\ parts[1] = date_str /\ parts[2] = habit}
    IN  IF hits = {} THEN 0 ELSE CHOOSE i \in hits : \A j \in hits : i <= j

RECURSIVE DropBlankHead(_)
DropBlankHead(lines) ==
    IF lines # <<>> /\ Strip(Head(lines)) = "" THEN DropBlankHead(Tail(lines)) ELSE lines

RECURSIVE DropBlankTail(_)
DropBlankTail(lines) ==
    IF lines # <<>> /\ Strip(lines[Len(lines)]) = ""
    THEN DropBlankTail(SubSeq(lines, 1, Len(lines) - 1))
    ELSE lines

\* "\n".join(lines).strip() + "\n", as lines
JoinStrip(lines) ==
    LET kept == DropBlankTail(DropBlankHead(lines))
    IN  [i \in 1..Len(kept) |->
            LET l == IF i = 1 THEN LStrip(kept[i]) ELSE kept[i]
            IN  IF i = Len(kept) THEN RStrip(l) ELSE l]

\* GoalsAgent.log_habit: the file it leaves, the streak it computed, what it returns
log_habit(content, d, habit, status) ==
    LET date_str == FmtDate(Days[d])
        streak == Streak(content, habit, status)
        comment == Comment(streak, status)
        new_row == "| " \o date_str \o " | " \o habit \o " | " \o status \o " | "
                        \o comment \o " |"
        idx == UpdateIndex(content, date_str, habit)
        lines == IF idx # 0 THEN [content EXCEPT ![idx] = new_row]
                 ELSE IF content # <<>> /\ Strip(content[Len(content)]) # ""
                      THEN content \o <<"", new_row>>
                      ELSE Append(content, new_row)
    IN  [file |-> JoinStrip(lines),
         streak |-> streak,
         result |-> "Habit '" \o habit \o "' logged as " \o status \o ". " \o comment]

----------------------------------------------------------------------------
(* The habit tracker as a state machine *)

\* what the model passes to log_habit
Habits == {"Run", "Running"}
Statuses == {"Done", "Missed"}

GoalsInit ==
    /\ now = 1
    /\ files = [m \in Months |-> NoFile]
    /\ last = NoOp
    /\ tracker = TrackerHeader
    /\ today = 1
    /\ habitCalls = <<>>
    /\ LoopIdle
    /\ tasks = NoTasks

\* the date changes between two calls
NextDay ==
    /\ today < Len(Days)
    /\ today' = today + 1
    /\ UNCHANGED <<now, files, last, tracker, habitCalls>>
    /\ UNCHANGED loopVars
    /\ UNCHANGED tasks

LogHabit ==
    \E habit \in Habits, status \in Statuses :
        LET r == log_habit(tracker, today, habit, status)
        IN  /\ Len(habitCalls) < MaxHabitCalls
            /\ tracker' = r.file
            /\ habitCalls' = Append(habitCalls,
                   [habit |-> habit, status |-> status, day |-> today,
                    before |-> tracker, streak |-> r.streak])
            /\ UNCHANGED <<now, files, last, today>>
            /\ UNCHANGED loopVars
            /\ UNCHANGED tasks

GoalsNext ==
    \/ NextDay
    \/ LogHabit

GoalsSpec == GoalsInit /\ [][GoalsNext]_vars

\* habit names of which one contains the word "Date"
DateHabits == {"Run", "Date night"}

\* log_habit called with such names
LogDateHabit ==
    \E habit \in DateHabits, status \in Statuses :
        LET r == log_habit(tracker, today, habit, status)
        IN  /\ Len(habitCalls) < MaxHabitCalls
            /\ tracker' = r.file
            /\ habitCalls' = Append(habitCalls,
                   [habit |-> habit, status |-> status, day |-> today,
                    before |-> tracker, streak |-> r.streak])
            /\ UNCHANGED <<now, files, last, today>>
            /\ UNCHANGED loopVars
            /\ UNCHANGED tasks

TrackerNext ==
    \/ NextDay
    \/ LogDateHabit

TrackerSpec == GoalsInit /\ [][TrackerNext]_vars

\* statuses of which two are written in another way than "Done" and are
\* success statuses for log_habit
SynonymStatuses == {"Done", "completed", "yes", "Missed"}

\* log_habit called for one habit with such statuses
LogSynonymHabit ==
    \E status \in SynonymStatuses :
        LET r == log_habit(tracker, today, "Run", status)
        IN  /\ Len(habitCalls) < MaxHabitCalls
            /\ tracker' = r.file
            /\ habitCalls' = Append(habitCalls,
                   [habit |-> "Run", status |-> status, day |-> today,
                    before |-> tracker, streak |-> r.streak])
            /\ UNCHANGED <<now, files, last, today>>
            /\ UNCHANGED loopVars
            /\ UNCHANGED tasks

SynonymNext ==
    \/ NextDay
    \/ LogSynonymHabit

SynonymSpec == GoalsInit /\ [][SynonymNext]_vars

----------------------------------------------------------------------------
(* Claims about the finance ledger, checked under FinanceSpec *)

\* the greatest element of a non-empty set of numbers
MaxOf(S) == CHOOSE i \in S : \A j \in S : j <= i

Deleted == last.op = "delete" /\ last.before.exists
Before == last.before.lines
After == files[last.month].lines

\* the criteria of a claim: the data rows of the file read in which the extracted
\* number occurs, or of which the normalized criteria is a substring
RowsMatching(lines, criteria) ==
    LET clean == CleanCriteria(criteria)
        number == SearchNumber(clean)
    IN  {i \in DataRows(lines) :
            \/ number # "" /\ Contains(lines[i], number)
            \/ Contains(Lower(lines[i]), clean)}

\* C1: delete_specific_transaction removes at most one line, and when data rows
\* match the criteria the line removed is the last matching row; every other
\* line is kept in its order.
C1_DeleteRemovesLastMatch ==
    Deleted =>
        /\ After = Before \/ \E i \in 1..Len(Before) : After = RemoveAt(Before, i)
        /\ RowsMatching(Before, last.criteria) # {} =>
               After = RemoveAt(Before, MaxOf(RowsMatching(Before, last.criteria)))

\* C1's case: a delete that read a file with two different matching rows and a
\* later row that does not match, and removed a line
C1_Witness ==
    /\ Deleted
    /\ After # Before
    /\ \E i, j \in RowsMatching(Before, last.criteria) : Before[i] # Before[j]
    /\ \E k \in DataRows(Before) :
           k \notin RowsMatching(Before, last.criteria)
           /\ k > MaxOf(RowsMatching(Before, last.criteria))

\* C2: the line delete_specific_transaction deletes is always a transaction data
\* row, never a header, separator or metadata line of the file.
C2_DeletesOnlyDataRows ==
    (Deleted /\ After # Before) =>
        \E i \in DataRows(Before) : After = RemoveAt(Before, i)

NotFoundResults(criteria) == {
    "No transaction file found for this month.",
    "No matching transaction found for '" \o criteria \o "'.",
    "No transaction file found.",
    "No transactions found to undo." }

\* C3: delete_specific_transaction and undo_last_transaction on a ledger that
\* does not exist or holds no data row return a not-found result and leave the
\* file unchanged.
C3_EmptyLedgerNotFound ==
    (/\ last.op \in {"delete", "undo"}
     /\ (~last.before.exists \/ DataRows(last.before.lines) = {})) =>
        /\ files[last.month] = last.before
        /\ last.result \in NotFoundResults(last.criteria)

\* the amount column of a data row
AmountColumn(line) == Fields(line)[5]
\* the data rows that record the amount a criteria names
RowsWithAmount(lines, criteria) ==
    {i \in DataRows(lines) :
        \E a \in {x.amount : x \in Transactions} :
            /\ CleanCriteria(criteria) \in {Decimal(a), FloatStr(a)}
            /\ AmountColumn(lines[i]) = FloatStr(a)}

\* C4: delete_specific_transaction called with an amount as criteria removes the
\* most recently logged record having that amount and leaves all other records
\* in order.
C4_DeletesLastWithAmount ==
    (Deleted /\ RowsWithAmount(Before, last.criteria) # {}) =>
        After = RemoveAt(Before, MaxOf(RowsWithAmount(Before, last.criteria)))

----------------------------------------------------------------------------
(* Claims about the habit tracker, checked under GoalsSpec *)

IsDone(c) == Lower(c.status) = "done"
IsMissed(c) == Lower(c.status) = "missed"

\* calls k, k+1, k+2 are three Done calls for one habit
ThreeDoneFrom(k) ==
    /\ k + 2 <= Len(habitCalls)
    /\ \A m \in k..(k + 2) : IsDone(habitCalls[m]) /\ habitCalls[m].habit = habitCalls[k].habit

\* C5 as stated: after three consecutive log_habit calls with status "Done" for
\* the same habit, the streak computed by the third call is 3.
C5_ThirdDoneStreakIsThree ==
    \A k \in 1..Len(habitCalls) : ThreeDoneFrom(k) => habitCalls[k + 2].streak = 3

\* C5 as amended: three consecutive "Done" calls for one habit, made on three
\* different days on a tracker that held no row before them, compute the
\* streaks 0, 1 and 2: the streak counts the rows already in the file, and the
\* row of the call is written after it is computed.
C5_ThirdDoneStreakIsTwo ==
    (/\ ThreeDoneFrom(1)
     /\ habitCalls[1].day < habitCalls[2].day
     /\ habitCalls[2].day < habitCalls[3].day) =>
        /\ habitCalls[1].streak = 0
        /\ habitCalls[2].streak = 1
        /\ habitCalls[3].streak = 2

\* C5's case: the first three calls were "Done" calls for "Run" on three days
C5_Witness ==
    /\ ThreeDoneFrom(1)
    /\ habitCalls[1].habit = "Run"
    /\ habitCalls[1].day < habitCalls[2].day
    /\ habitCalls[2].day < habitCalls[3].day
    /\ Len(tracker) > Len(habitCalls[3].before)

\* the first four calls log one habit as done, done, missed, done
DoneDoneMissedDone ==
    /\ Len(habitCalls) >= 4
    /\ \A m \in 1..4 : habitCalls[m].habit = habitCalls[1].habit
    /\ IsDone(habitCalls[1]) /\ IsDone(habitCalls[2])
    /\ IsMissed(habitCalls[3]) /\ IsDone(habitCalls[4])

\* C6 as stated: logging one habit as done, done, missed, done yields a streak
\* of 1 as computed by the last "done" call.
C6_StreakAfterMissIsOne == DoneDoneMissedDone => habitCalls[4].streak = 1

\* C6 as amended: logging one habit as done, done, missed, done on a fresh
\* tracker yields a streak of 0 as computed by the last "done" call, on
\* whatever days the calls are made: the scan stops at the missed row.
C6_StreakAfterMissIsZero == DoneDoneMissedDone => habitCalls[4].streak = 0

\* C6's case: the four calls were made for "Run", the first three on three days
C6_Witness ==
    /\ DoneDoneMissedDone
    /\ habitCalls[1].habit = "Run"
    /\ habitCalls[1].day < habitCalls[2].day
    /\ habitCalls[2].day < habitCalls[3].day
    /\ habitCalls[4].before # habitCalls[3].before

\* the rows of a tracker whose Habit column is the habit
HabitRows(lines, habit) ==
    {i \in 1..Len(lines) :
        /\ StartsWith(lines[i], "|")
        /\ Len(Fields(lines[i])) >= 4
        /\ Fields(lines[i])[2] = habit}

\* C7: when the most recent tracker row of a habit has a non-success status,
\* the next log_habit call for that habit with status "Done" computes a streak
\* of 0.
C7_StreakZeroAfterNonSuccess ==
    \A k \in 1..Len(habitCalls) :
        LET c == habitCalls[k]
            rows == HabitRows(c.before, c.habit)
        IN  (/\ IsDone(c)
             /\ rows # {}
             /\ Lower(Fields(c.before[MaxOf(rows)])[3]) \notin SuccessStatuses) =>
                c.streak = 0

----------------------------------------------------------------------------
(* agents/orchestrator.py: process_message and its tool-calling loop *)

\* the keys of OrchestratorAgent.available_tools
AvailableTools == {
    "remember_fact", "log_transaction", "perform_audit", "undo_last_transaction",
    "delete_specific_transaction", "get_financial_advice",
    "create_project_with_plan", "add_to_inbox", "review_inbox", "get_project_plan",
    "generate_weekly_sprint", "update_project_status",
    "save_smart_note", "research_topic", "search_vault", "create_study_plan",
    "log_habit", "get_vision", "create_vision", "analyze_project_for_habits",
    "read_file", "generate_morning_briefing", "set_assistant_name" }

\* dict(fc.args): the keys the model supplied, and the values of those keys
NoArgs == [names |-> {}, description |-> "", amount |-> 0]

\* a part of a model response: a text, or a function call (name "" when the part
\* has none and part.function_call is falsy)
TextPart(t) == [text |-> t, name |-> "", args |-> NoArgs]
CallPart(n, a) == [text |-> "", name |-> n, args |-> a]

LogGas == CallPart("log_transaction",
                   [names |-> {"description", "amount"}, description |-> "gas", amount |-> 10])
\* a call that leaves out the required argument amount
LogNoAmount == CallPart("log_transaction",
                        [names |-> {"description"}, description |-> "gas", amount |-> 0])
Undo == CallPart("undo_last_transaction", NoArgs)
\* a name that is no key of available_tools
SendEmail == CallPart("send_email", NoArgs)

\* response.candidates[0].content.parts, as the model may answer
Responses == {
    <<TextPart("Listo.\n")>>,
    <<TextPart("\n")>>,
    <<TextPart("Hecho. "), TextPart("Algo mas?")>>,
    <<>>,
    <<LogGas>>,
    <<LogNoAmount>>,
    <<Undo>>,
    <<SendEmail>>,
    <<TextPart("Un momento."), Undo>>,
    <<LogGas, SendEmail>> }

\* the parameters of the tools the model calls here, and those without a default
ToolParams(name) ==
    CASE name = "log_transaction" -> {"description", "amount", "type", "category", "currency"}
      [] OTHER -> {}
ToolRequired(name) ==
    CASE name = "log_transaction" -> {"description", "amount"}
      [] OTHER -> {}

\* tools that work on the ledger as it was before the last tool wrote it
call_tool_stale(name, args) ==
    LET m == get_current_month_file(now)
        read == IF last.op = "none" THEN files[m] ELSE last.before
        same == [raised |-> FALSE, result |-> "", files |-> files, last |-> last]
    IN  IF name = "undo_last_transaction"
        THEN LET r == undo_last_transaction(read)
             IN  [same EXCEPT !.result = r.result,
                              !.files = [files EXCEPT ![m] = r.file],
                              !.last = [op |-> "undo", month |-> m, criteria |-> "",
                                        before |-> read, result |-> r.result,
                                        at |-> now, tx |-> NoTx]]
        ELSE IF name = "log_transaction" /\ ToolRequired(name) \ args.names = {}
        THEN LET r == log_transaction(read, now, args.description, args.amount,
                                      "Expense", "General", "USD")
             IN  [same EXCEPT !.result = r.result,
                              !.files = [files EXCEPT ![m] = r.file],
                              !.last = [op |-> "log", month |-> m,
                                        criteria |-> FloatStr(args.amount),
                                        before |-> read, result |-> r.result,
                                        at |-> now,
                                        tx |-> [description |-> args.description,
                                                amount |-> args.amount,
                                                category |-> "General"]]]
        ELSE [same EXCEPT !.raised = ToolRequired(name) \ args.names # {},
                          !.result = "ok"]

\* self.available_tools[tool_name](**args): the call raises TypeError when the
\* arguments do not bind; the tools catch what their bodies raise
call_tool(name, args) ==
    LET m == get_current_month_file(now)
        same == [raised |-> FALSE, result |-> "", files |-> files, last |-> last]
    IN  IF ToolRequired(name) \ args.names # {}
        THEN [same EXCEPT !.raised = TRUE, !.result = name \o "() missing required argument"]
        ELSE IF args.names \ ToolParams(name) # {}
        THEN [same EXCEPT !.raised = TRUE,
                          !.result = name \o "() got an unexpected keyword argument"]
        ELSE IF name = "log_transaction"
        THEN LET r == log_transaction(files[m], now, args.description, args.amount,
                                      "Expense", "General", "USD")
             IN  [same EXCEPT !.result = r.result,
                              !.files = [files EXCEPT ![m] = r.file],
                              !.last = [op |-> "log", month |-> m,
                                        criteria |-> FloatStr(args.amount),
                                        before |-> files[m], result |-> r.result,
                                        at |-> now,
                                        tx |-> [description |-> args.description,
                                                amount |-> args.amount,
                                                category |-> "General"]]]
        ELSE IF name = "undo_last_transaction"
        THEN LET r == undo_last_transaction(files[m])
             IN  [same EXCEPT !.result = r.result,
                              !.files = [files EXCEPT ![m] = r.file],
                              !.last = [op |-> "undo", month |-> m, criteria |-> "",
                                        before |-> files[m], result |-> r.result,
                                        at |-> now, tx |-> NoTx]]
        ELSE [same EXCEPT !.result = "ok"]

\* the dispatch of the loop body without its test of the name: an unknown name
\* raises KeyError, which leaves the loop
execute_tool_unchecked(name, args) ==
    LET c == call_tool(name, args)
    IN  IF name \notin AvailableTools
        THEN [invoked |-> FALSE, raised |-> TRUE, escaped |-> TRUE, result |-> name,
              files |-> files, last |-> last]
        ELSE [invoked |-> TRUE, raised |-> c.raised, escaped |-> FALSE,
              result |-> IF c.raised THEN "Error executing tool: " \o c.result ELSE c.result,
              files |-> c.files, last |-> c.last]

\* the dispatch of the loop body without its inner try: what the call raises
\* leaves the loop
execute_tool_uncaught(name, args) ==
    LET c == call_tool(name, args)
    IN  IF name \in AvailableTools
        THEN [invoked |-> TRUE, raised |-> c.raised, escaped |-> c.raised,
              result |-> c.result, files |-> c.files, last |-> c.last]
        ELSE [invoked |-> FALSE, raised |-> FALSE, escaped |-> FALSE,
              result |-> "Error: Tool " \o name \o " not found.",
              files |-> files, last |-> last]

\* the dispatch of the loop body: tool_result, whether a tool was invoked,
\* whether it raised, whether the exception left the inner try, and the files
\* the tool left
execute_tool(name, args) ==
    LET c == call_tool(name, args)
    IN  IF name \in AvailableTools
        THEN [invoked |-> TRUE, raised |-> c.raised, escaped |-> FALSE,
              result |-> IF c.raised THEN "Error executing tool: " \o c.result ELSE c.result,
              files |-> c.files, last |-> c.last]
        ELSE [invoked |-> FALSE, raised |-> FALSE, escaped |-> FALSE,
              result |-> "Error: Tool " \o name \o " not found.",
              files |-> files, last |-> last]

\* a scan that looks at the first part only
function_call_part_first(parts) ==
    IF parts # <<>> /\ parts[1].name # "" THEN 1 ELSE 0

\* a scan that keeps the last function call
function_call_part_last(parts) ==
    LET calls == {i \in 1..Len(parts) : parts[i].name # ""}
    IN  IF calls = {} THEN 0 ELSE CHOOSE i \in calls : \A j \in calls : j <= i

\* the scan of the parts for the first function call: its index, 0 for none
function_call_part(parts) ==
    LET calls == {i \in 1..Len(parts) : parts[i].name # ""}
    IN  IF calls = {} THEN 0 ELSE CHOOSE i \in calls : \A j \in calls : i <= j

RECURSIVE JoinTexts(_)
\* "".join(part.text for part in parts if part.text)
JoinTexts(parts) ==
    IF parts = <<>> THEN "" ELSE Head(parts).text \o JoinTexts(Tail(parts))

\* the fixed text returned for a response without text (the check mark that
\* starts it is left out)
NoTextResponse == "Tarea completada (Sin respuesta de texto)."

\* the text extraction without its strip()
FinalTextUnstripped(parts) ==
    LET final_response == JoinTexts(parts)
    IN  IF final_response = "" THEN NoTextResponse ELSE final_response

\* the text process_message returns for a response without a function call
FinalText(parts) ==
    LET final_response == Strip(JoinTexts(parts))
    IN  IF final_response = "" THEN NoTextResponse ELSE final_response

\* the text of the outer except (of "tecnico" the accent is left out)
Apology == "Lo siento, tuve un error tecnico."

\* what the handling of a message does, as recorded in events
NoEvent == [ev |-> "", kind |-> "", parts |-> <<>>, name |-> "", invoked |-> FALSE,
            raised |-> FALSE, result |-> "", changed |-> FALSE]
SentEv(kind, result) == [NoEvent EXCEPT !.ev = "sent", !.kind = kind, !.result = result]
ResponseEv(parts) == [NoEvent EXCEPT !.ev = "response", !.parts = parts]
ToolEv(name, x, changed) ==
    [NoEvent EXCEPT !.ev = "tool", !.name = name, !.invoked = x.invoked,
                    !.raised = x.raised, !.result = x.result, !.changed = changed]

\* the tool requests executed while the current message is handled
ToolCount == Len(SelectSeq(events, LAMBDA e : e.ev = "tool"))

\* what the transport hands over with a message: no media, media that downloads,
\* a download that answers another status than 200, a download that raises
Media == {"none", "ok", "bad_status", "error"}

\* the two turns a new chat starts with
Preamble == <<[role |-> "user", kind |-> "context"],
              [role |-> "model", kind |-> "acknowledgement"]>>

\* a session init that starts a new chat for every message
start_new_chat(s) == [exists |-> TRUE, id |-> handled + 1, turns |-> Preamble]

\* a session init that hands every sender the chat started first
get_shared_chat(s) ==
    IF \E t \in Senders : sessions[t].exists
    THEN sessions[CHOOSE t \in Senders : sessions[t].exists /\ sessions[t].id = 1]
    ELSE [exists |-> TRUE, id |-> handled + 1, turns |-> Preamble]

\* the session init of process_message: the chat of the sender, started with the
\* two preamble turns when the sender has none
get_or_create(s) ==
    IF sessions[s].exists THEN sessions[s]
    ELSE [exists |-> TRUE, id |-> handled + 1, turns |-> Preamble]

LoopInit ==
    /\ now = 1
    /\ files = [m \in Months |-> NoFile]
    /\ last = NoOp
    /\ tracker = TrackerHeader
    /\ today = 1
    /\ habitCalls = <<>>
    /\ LoopIdle
    /\ tasks = NoTasks

\* process_message up to its first chat.send_message
ReceiveMessage ==
    \E s \in Senders, media \in Media :
        LET chat == get_or_create(s)
        IN  /\ pc \in {"idle", "done"}
            /\ handled < MaxMessages
            /\ handled' = handled + 1
            /\ sender' = s
            /\ response' = <<>>
            /\ IF media = "bad_status"
               THEN /\ sessions' = [sessions EXCEPT ![s] = chat]
                    /\ events' = <<>>
                    /\ outcome' = [kind |-> "media_error", text |-> "Error downloading media."]
                    /\ pc' = "done"
               ELSE IF media = "error"
               THEN /\ sessions' = [sessions EXCEPT ![s] = chat]
                    /\ events' = <<>>
                    /\ outcome' = [kind |-> "media_error", text |-> "Error procesando media."]
                    /\ pc' = "done"
               ELSE /\ sessions' = [sessions EXCEPT ![s] =
                            [chat EXCEPT !.turns = Append(chat.turns,
                                [role |-> "user", kind |-> "content"])]]
                    /\ events' = <<SentEv("content", "")>>
                    /\ outcome' = NoOutcome
                    /\ pc' = "awaiting"
            /\ UNCHANGED <<now, files, last, tracker, today, habitCalls, tasks>>

\* chat.send_message returns: the loop examines the response
ModelResponds ==
    \E r \in Responses :
        /\ pc = "awaiting"
        /\ function_call_part(r) # 0 => ToolCount < MaxToolCalls
        /\ response' = r
        /\ events' = Append(events, ResponseEv(r))
        /\ IF function_call_part(r) # 0
           THEN pc' = "executing" /\ outcome' = outcome
           ELSE pc' = "done" /\ outcome' = [kind |-> "answer", text |-> FinalText(r)]
        /\ UNCHANGED <<now, files, last, tracker, today, habitCalls, sessions, sender,
                       handled, tasks>>

\* chat.send_message raises: the first send is outside the try, the sends of the
\* loop are inside it
ModelFails ==
    /\ pc = "awaiting"
    /\ outcome' = IF Len(events) = 1 THEN [kind |-> "raised", text |-> ""]
                  ELSE [kind |-> "apology", text |-> Apology]
    /\ pc' = "done"
    /\ UNCHANGED <<now, files, last, tracker, today, habitCalls, sessions, sender,
                   response, events, handled, tasks>>

\* a loop body that gives up when a second tool is requested for one message
ExecuteToolBounded ==
    LET part == response[function_call_part(response)]
        x == execute_tool(part.name, part.args)
    IN  /\ pc = "executing"
        /\ IF ToolCount >= 1
           THEN /\ outcome' = [kind |-> "exceeded", text |-> Apology]
                /\ pc' = "done"
                /\ UNCHANGED <<files, last, events, sessions>>
           ELSE /\ files' = x.files
                /\ last' = x.last
                /\ events' = events \o <<ToolEv(part.name, x, x.files # files),
                                         SentEv("tool_result", x.result)>>
                /\ sessions' = [sessions EXCEPT ![sender].turns =
                                   Append(@, [role |-> "user", kind |-> "tool_result"])]
                /\ outcome' = outcome
                /\ pc' = "awaiting"
        /\ UNCHANGED <<now, tracker, today, habitCalls, sender, response, handled, tasks>>

\* the body of the loop for a response with a function call: the tool is
\* executed and its result sent to the model
ExecuteTool ==
    LET part == response[function_call_part(response)]
        x == execute_tool(part.name, part.args)
    IN  /\ pc = "executing"
        /\ files' = x.files
        /\ last' = x.last
        /\ IF x.escaped
           THEN /\ events' = Append(events, ToolEv(part.name, x, x.files # files))
                /\ outcome' = [kind |-> "apology", text |-> Apology]
                /\ pc' = "done"
                /\ UNCHANGED sessions
           ELSE /\ events' = events \o <<ToolEv(part.name, x, x.files # files),
                                         SentEv("tool_result", x.result)>>
                /\ sessions' = [sessions EXCEPT ![sender].turns =
                                   Append(@, [role |-> "user", kind |-> "tool_result"])]
                /\ outcome' = outcome
                /\ pc' = "awaiting"
        /\ UNCHANGED <<now, tracker, today, habitCalls, sender, response, handled, tasks>>

LoopNext ==
    \/ ReceiveMessage
    \/ ModelResponds
    \/ ModelFails
    \/ ExecuteTool

LoopSpec == LoopInit /\ [][LoopNext]_vars

----------------------------------------------------------------------------
(* Claims about the tool-calling loop, checked under LoopSpec *)

\* the tool result of event i was sent to the model, nothing else was done
\* with it, and the loop went on: it waits for the next model response, has
\* examined it, or the model call failed
SentAndLoopGoesOn(i) ==
    /\ i + 1 <= Len(events)
    /\ events[i + 1] = SentEv("tool_result", events[i].result)
    /\ i + 1 = Len(events) =>
           \/ pc = "awaiting" /\ outcome = NoOutcome
           \/ pc = "done" /\ outcome.kind = "apology"
    /\ i + 2 <= Len(events) => events[i + 2].ev = "response"

\* C8: a requested tool name that is no key of available_tools invokes no
\* capability function, raises nothing, yields the fixed not-found string as
\* tool result, and that result is sent to the model, after which the loop
\* continues with the next model response.
C8_UnknownToolNotFound ==
    \A i \in 1..Len(events) :
        (events[i].ev = "tool" /\ events[i].name \notin AvailableTools) =>
            /\ ~events[i].invoked
            /\ ~events[i].raised
            /\ ~events[i].changed
            /\ events[i].result = "Error: Tool " \o events[i].name \o " not found."
            /\ SentAndLoopGoesOn(i)

\* C8's case: an unknown tool was requested and the next response was examined
C8_Witness ==
    \E i \in 1..Len(events) :
        /\ events[i].ev = "tool"
        /\ events[i].name = "send_email"
        /\ i + 2 <= Len(events)
        /\ events[i + 2].ev = "response"

\* C9: an exception raised while a registered tool is invoked is caught, its
\* message becomes the tool result, the result is sent to the model and the
\* loop goes on with the next model response.
C9_ToolExceptionCaught ==
    \A i \in 1..Len(events) :
        (events[i].ev = "tool" /\ events[i].raised) =>
            /\ events[i].name \in AvailableTools
            /\ StartsWith(events[i].result, "Error executing tool: " \o events[i].name)
            /\ ~events[i].changed
            /\ SentAndLoopGoesOn(i)

\* C9's case: log_transaction was called without its amount, and the next
\* response was examined
C9_Witness ==
    \E i \in 1..Len(events) :
        /\ events[i].ev = "tool"
        /\ events[i].raised
        /\ events[i].name = "log_transaction"
        /\ i + 2 <= Len(events)
        /\ events[i + 2].ev = "response"

\* a response contains a tool request
HasToolRequest(parts) == \E i \in 1..Len(parts) : parts[i].name # ""

\* the last thing the handling of the current message did
LastEvent == IF events = <<>> THEN NoEvent ELSE events[Len(events)]

\* C10: the loop alternates AWAITING_MODEL and EXECUTING_TOOL: a tool is executed
\* only right after a response that contains a tool request, every executed
\* request is followed by exactly one tool-result message before another
\* response is examined, and DONE is entered exactly when a response contains
\* no tool request.
C10_LoopStateMachine ==
    /\ \A i \in 1..Len(events) :
           /\ events[i].ev = "tool" =>
                  /\ i > 1
                  /\ events[i - 1].ev = "response"
                  /\ \E k \in 1..Len(events[i - 1].parts) :
                         events[i - 1].parts[k].name = events[i].name
                  /\ i + 1 <= Len(events)
                  /\ events[i + 1].ev = "sent" /\ events[i + 1].kind = "tool_result"
           /\ events[i].ev = "response" =>
                  /\ i > 1
                  /\ events[i - 1].ev = "sent"
                  /\ i < Len(events) =>
                         HasToolRequest(events[i].parts) /\ events[i + 1].ev = "tool"
           /\ events[i].ev = "sent" =>
                  IF i = 1 THEN events[i].kind = "content"
                  ELSE events[i].kind = "tool_result" /\ events[i - 1].ev = "tool"
    /\ pc = "executing" <=> (LastEvent.ev = "response" /\ HasToolRequest(LastEvent.parts))
    /\ pc = "awaiting" => LastEvent.ev = "sent"
    /\ LastEvent.ev = "sent" => pc = "awaiting" \/ outcome.kind \in {"raised", "apology"}
    /\ outcome.kind = "answer" <=>
           (LastEvent.ev = "response" /\ ~HasToolRequest(LastEvent.parts))
    /\ outcome.kind = "answer" => pc = "done"

\* C10's case: two tools were executed, the second requested after a text
\* part, and the loop then reached DONE
C10_Witness ==
    /\ outcome.kind = "answer"
    /\ ToolCount = 2
    /\ \E i \in 1..Len(events) :
           /\ events[i].ev = "response"
           /\ HasToolRequest(events[i].parts)
           /\ events[i].parts[1].name = ""

\* a call to the model made while the current message was handled failed
ModelCallFailed == pc = "done" /\ LastEvent.ev = "sent"

\* C11: a failure of any call to the model made while a message is handled, the
\* first send of the user content included, makes process_message return the
\* fixed apology text; process_message does not raise.
C11_ModelFailureIsApology ==
    /\ ModelCallFailed => outcome = [kind |-> "apology", text |-> Apology]
    /\ outcome.kind # "raised"

\* the text segments of a response, one after the other in part order
Concatenation(parts) ==
    LET cat[i \in 0..Len(parts)] == IF i = 0 THEN "" ELSE cat[i - 1] \o parts[i].text
    IN  cat[Len(parts)]

\* C12 as stated: in DONE the returned text is the concatenation, in order, of
\* the text segments of the final response, and the fixed no-text message when
\* that concatenation is empty.
C12_ReturnsConcatenation ==
    outcome.kind = "answer" =>
        outcome.text = IF Concatenation(response) = "" THEN NoTextResponse
                       ELSE Concatenation(response)

\* C12 as amended: in DONE the returned text is the concatenation, in order, of
\* the text segments of the final response with the whitespace at its two ends
\* removed, and the fixed no-text message when nothing is left of it; it is
\* never the empty string.
C12_ReturnsStrippedConcatenation ==
    outcome.kind = "answer" =>
        /\ response = LastEvent.parts
        /\ outcome.text = IF Strip(Concatenation(response)) = "" THEN NoTextResponse
                          ELSE Strip(Concatenation(response))
        /\ outcome.text # ""

\* C12's case: after a tool call the final response was a text that ends with
\* a newline, and the text returned is that text without the newline
C12_Witness ==
    /\ outcome.kind = "answer"
    /\ ToolCount >= 1
    /\ Concatenation(response) = "Listo.\n"
    /\ outcome.text = "Listo."

\* s is a prefix of t
IsPrefix(s, t) == Len(s) <= Len(t) /\ SubSeq(t, 1, Len(s)) = s

\* C13: the session map holds one handle per sender: the first message of a
\* sender creates a handle seeded with the two preamble turns, every later
\* message of that sender uses that handle, and no step (the media-error and
\* apology paths included) removes or replaces an entry, so the set of senders
\* in the map only grows.
C13_SessionsOnlyGrow ==
    [][\A s \in Senders :
        /\ sessions[s].exists =>
               /\ sessions'[s].exists
               /\ sessions'[s].id = sessions[s].id
               /\ IsPrefix(sessions[s].turns, sessions'[s].turns)
        /\ (~sessions[s].exists /\ sessions'[s].exists) =>
               /\ handled' = handled + 1
               /\ sender' = s
               /\ IsPrefix(Preamble, sessions'[s].turns)
               /\ Len(sessions'[s].turns) <= Len(Preamble) + 1
        /\ (handled' = handled + 1 /\ sender' = s) => sessions'[s].exists
        /\ sessions'[s].exists => IsPrefix(Preamble, sessions'[s].turns)]_vars

\* C13's case: the second message of a sender ended on the media-error path
\* and the sender still has the handle its first message created, to which the
\* first message sent a turn
C13_Witness ==
    /\ handled = 2
    /\ sender = "A"
    /\ outcome.kind = "media_error"
    /\ sessions["A"].id = 1
    /\ Len(sessions["A"].turns) > Len(Preamble)

----------------------------------------------------------------------------
(* main.py: the handlers of the webhook requests on the event loop of the one *)
(* server process uvicorn.run starts                                         *)

\* what the model asks for while a request is handled: a tool that reads a
\* file and writes it back (log_habit, delete_specific_transaction), or one that
\* appends (log_transaction)
RaceOps == {
    [tool |-> "log_habit", habit |-> "Run", status |-> "Done"],
    [tool |-> "log_habit", habit |-> "Run", status |-> "Missed"],
    [tool |-> "log_transaction", description |-> "gas", amount |-> 10],
    [tool |-> "delete_specific_transaction", criteria |-> "gas"] }

\* a handler as if process_message awaited its tools and the tools their file
\* operations
SuspendPointsIfAwaited == {"called", "read"}

\* the positions between the entry of bot_webhook and its return at which the
\* handler suspends and the event loop runs another handler: bot_webhook awaits
\* process_message, which is a coroutine without any await, async for or async
\* with, and every call it makes is a blocking call
SuspendPoints == {}

\* the handlers that hold the thread of the event loop
OnLoop == {t \in Requests : tasks[t].pc \in {"called", "read"} \ SuspendPoints}

\* the event loop can run (or go on running) the handler of request t
MayRun(t) == OnLoop \subseteq {t}

\* a request reaches the server
Arrive(t) ==
    /\ tasks[t].pc = "none"
    /\ tasks' = [tasks EXCEPT ![t].pc = "pending",
                              ![t].arrivedDuring = \E u \in Requests : tasks[u].pc = "read"]
    /\ UNCHANGED <<now, files, last, tracker, today, habitCalls>>
    /\ UNCHANGED loopVars

\* the event loop starts the handler: bot_webhook calls process_message, and the
\* model answers with a tool request
Begin(t) ==
    \E op \in RaceOps :
        /\ tasks[t].pc = "pending"
        /\ MayRun(t)
        /\ tasks' = [tasks EXCEPT ![t].pc = "called", ![t].op = op]
        /\ UNCHANGED <<now, files, last, tracker, today, habitCalls>>
        /\ UNCHANGED loopVars

\* the tool reads its file (read_text); log_transaction reads nothing
ToolReads(t) ==
    LET op == tasks[t].op
        m == get_current_month_file(now)
        content == IF op.tool = "log_habit" THEN [exists |-> TRUE, lines |-> tracker]
                   ELSE IF op.tool = "delete_specific_transaction" THEN files[m]
                   ELSE NoFileRead
    IN  /\ tasks[t].pc = "called"
        /\ MayRun(t)
        /\ tasks' = [tasks EXCEPT ![t].pc = "read", ![t].content = content]
        /\ UNCHANGED <<now, files, last, tracker, today, habitCalls>>
        /\ UNCHANGED loopVars

\* the tool writes: log_habit and delete_specific_transaction write back what
\* they computed from the content they read (write_text), log_transaction
\* appends its row to the file as it is; the handler then returns
ToolWrites(t) ==
    LET op == tasks[t].op
        m == get_current_month_file(now)
        read == tasks[t].content
    IN  /\ tasks[t].pc = "read"
        /\ MayRun(t)
        /\ IF op.tool = "log_habit"
           THEN /\ tracker' = log_habit(read.lines, today, op.habit, op.status).file
                /\ files' = files
                /\ tasks' = [tasks EXCEPT ![t].pc = "finished",
                                          ![t].stale = read.lines # tracker]
           ELSE IF op.tool = "delete_specific_transaction"
           THEN LET r == delete_specific_transaction(read, op.criteria)
                IN  /\ files' = IF r.file # read THEN [files EXCEPT ![m] = r.file] ELSE files
                    /\ tracker' = tracker
                    /\ tasks' = [tasks EXCEPT ![t].pc = "finished",
                                              ![t].stale = r.file # read /\ read # files[m]]
           ELSE /\ files' = [files EXCEPT ![m] =
                        log_transaction(files[m], now, op.description, op.amount,
                                        "Expense", "General", "USD").file]
                /\ tracker' = tracker
                /\ tasks' = [tasks EXCEPT ![t].pc = "finished"]
        /\ UNCHANGED <<now, last, today, habitCalls>>
        /\ UNCHANGED loopVars

RaceInit ==
    /\ now = 1
    /\ files = [m \in Months |-> NoFile]
    /\ last = NoOp
    /\ tracker = TrackerHeader
    /\ today = 1
    /\ habitCalls = <<>>
    /\ LoopIdle
    /\ tasks = NoTasks

RaceNext ==
    \E t \in Requests :
        \/ Arrive(t)
        \/ Begin(t)
        \/ ToolReads(t)
        \/ ToolWrites(t)

RaceSpec == RaceInit /\ [][RaceNext]_vars

----------------------------------------------------------------------------
(* Claims about concurrent messages, checked under RaceSpec *)

\* the handler of request t can take a step
HandlerStep(t) == Begin(t) \/ ToolReads(t) \/ ToolWrites(t)

\* the rows of a tracker that carry the date and the habit of row i
SameDateAndHabit(lines, i) ==
    {j \in 1..Len(lines) :
        /\ StartsWith(lines[j], "| 20")
        /\ Fields(lines[j])[1] = Fields(lines[i])[1]
        /\ Fields(lines[j])[2] = Fields(lines[i])[2]}

\* C14 as stated: two executions for near-simultaneous messages can interleave:
\* while one stands between its read of a file and its write, the other, whose
\* message has arrived, can run and read the file before that write.
C14_CanRunBetweenReadAndWrite ==
    \A t, u \in Requests :
        (tasks[t].pc = "read" /\ tasks[u].pc \in {"pending", "called"}) =>
            ENABLED HandlerStep(u)

\* C14 as amended: the executions of two messages never interleave: a handler
\* runs from its start to its return before the event loop starts another, so
\* every file is written back from the content it holds at that moment (no lost
\* update) and the tracker never holds two rows for one date and habit.
C14_HandlersRunOneAtATime ==
    /\ Cardinality({t \in Requests : tasks[t].pc \in {"called", "read"}}) <= 1
    /\ \A t \in Requests : ~tasks[t].stale
    /\ \A t \in Requests :
           tasks[t].pc = "read" =>
               \A u \in Requests \ {t} : ~ENABLED HandlerStep(u)
    /\ \A i \in 1..Len(tracker) :
           StartsWith(tracker[i], "| 20") => SameDateAndHabit(tracker, i) = {i}

\* C14's case: two requests logged the same habit, the second arrived while the
\* first stood between its read and its write, and both have finished
C14_Witness ==
    /\ \A t \in Requests : tasks[t].pc = "finished" /\ tasks[t].op.tool = "log_habit"
    /\ \E t \in Requests : tasks[t].arrivedDuring
    /\ Len(tracker) > Len(TrackerHeader)

----------------------------------------------------------------------------
(* Claims about the rows of the tracker, checked under TrackerSpec *)

\* the rows of a tracker (the lines log_habit wrote), in file order
TrackerRows(lines) == SelectSeq(lines, LAMBDA l : StartsWith(l, "| 20"))

\* the tracker as call k of habitCalls left it
TrackerAfter(k) == IF k < Len(habitCalls) THEN habitCalls[k + 1].before ELSE tracker

\* the lines of a tracker that are rows of the date and the habit
RowsOf(lines, date_str, habit) ==
    {i \in 1..Len(lines) :
        /\ StartsWith(lines[i], "| 20")
        /\ Fields(lines[i])[1] = date_str
        /\ Fields(lines[i])[2] = habit}

\* C15: log_habit is update-or-append on the key (date, habit): a call that
\* finds a row of today's date and its habit replaces that row in place, all
\* other lines unchanged, and adds no row; any other call appends exactly one
\* row at the end. Hence the tracker holds at most one row per (date, habit).
C15_UpdateOrAppend ==
    /\ \A k \in 1..Len(habitCalls) :
           LET c == habitCalls[k]
               after == TrackerAfter(k)
               hits == RowsOf(c.before, FmtDate(Days[c.day]), c.habit)
           IN  IF hits # {}
               THEN /\ Len(after) = Len(c.before)
                    /\ \E i \in hits : \A j \in 1..Len(after) :
                           IF j = i THEN j \in RowsOf(after, FmtDate(Days[c.day]), c.habit)
                           ELSE after[j] = c.before[j]
               ELSE /\ Len(TrackerRows(after)) = Len(TrackerRows(c.before)) + 1
                    /\ IsPrefix(TrackerRows(c.before), TrackerRows(after))
                    /\ Len(after) \in RowsOf(after, FmtDate(Days[c.day]), c.habit)
    /\ \A i \in 1..Len(tracker) :
           StartsWith(tracker[i], "| 20") => SameDateAndHabit(tracker, i) = {i}

----------------------------------------------------------------------------
(* More claims about the finance ledger, checked under FinanceSpec *)

Logged == last.op = "log"

\* a transaction whose values are cells of a table: no bar, no line break, no
\* run of dashes that makes a separator, and nothing strip() would remove
WellFormed(x) ==
    /\ x.description # "" /\ Strip(x.description) = x.description
    /\ ~Contains(x.description, "|") /\ ~Contains(x.description, "\n")
    /\ ~Contains(x.description, ":---")
    /\ x.category # "" /\ Strip(x.category) = x.category
    /\ ~Contains(x.category, "|") /\ ~Contains(x.category, "\n")
    /\ ~Contains(x.category, ":---")

\* the six values log_transaction wrote for the last transaction
WrittenRecord ==
    [Date |-> FmtDateTime(Times[last.at]),
     Type |-> "Expense",
     Category |-> InferCategory(last.tx.description, last.tx.category),
     Description |-> last.tx.description,
     Amount |-> FloatStr(last.tx.amount),
     Currency |-> "USD"]

\* C16: round trip: every well-formed transaction log_transaction writes adds,
\* to what _parse_markdown_table returns for the file, one record at the end
\* whose six values are the values written, the records before it unchanged;
\* for a fresh ledger the records are those of the transactions, in the order
\* logged.
C16_ParseReturnsWhatWasLogged ==
    (Logged /\ WellFormed(last.tx)) =>
        parse_markdown_table(After) =
            Append(parse_markdown_table(Before), WrittenRecord)

\* C16's case: three transactions logged to a fresh ledger, the first and the
\* last different, are parsed to three records
C16_Witness ==
    /\ Logged
    /\ Len(Before) = Len(FinanceHeader(1)) + 2
    /\ Len(parse_markdown_table(After)) = 3
    /\ parse_markdown_table(After)[1] # parse_markdown_table(After)[3]
    /\ parse_markdown_table(After)[3] = WrittenRecord

\* the lines of a file that are the line given
Occurrences(lines, line) == {i \in 1..Len(lines) : lines[i] = line}

\* the column header and the separator of the two tables
LedgerColumns == "| Date | Type | Category | Description | Amount | Currency |"
LedgerSeparator == "| :--- | :--- | :--- | :--- | :--- | :--- |"
TrackerColumns == "| Date | Habit | Status | Coach Comment |"
TrackerSeparator == "| :--- | :--- | :--- | :--- |"

\* the tracker file absent, as it is, and after one more log_habit call
TrackerFiles == {
    NoFile,
    [exists |-> TRUE, lines |-> tracker],
    [exists |-> TRUE, lines |-> log_habit(tracker, today, "Run", "Done").file] }

\* C17: ensuring a table is idempotent: _ensure_file_exists and
\* _ensure_tracker_exists change nothing on a file that exists, so two
\* consecutive calls (at whatever times) leave the file one call leaves, with a
\* single header and the rows untouched.
C17_EnsureIsIdempotent ==
    /\ \A m \in Months, t, u \in 1..Len(Times) :
           LET once == ensure_file_exists(files[m], t)
           IN  /\ files[m].exists => once = files[m]
               /\ ensure_file_exists(once, u) = once
               /\ Cardinality(Occurrences(once.lines, LedgerColumns)) = 1
               /\ Cardinality(Occurrences(once.lines, LedgerSeparator)) = 1
    /\ \A g \in TrackerFiles :
           LET once == ensure_tracker_exists(g)
           IN  /\ g.exists => once = g
               /\ ensure_tracker_exists(once) = once
               /\ Cardinality(Occurrences(once.lines, TrackerColumns)) = 1
               /\ Cardinality(Occurrences(once.lines, TrackerSeparator)) = 1
    /\ (Logged /\ last.before.exists) => IsPrefix(Before, After)

\* C17's case: log_transaction, which calls _ensure_file_exists first, was
\* called on a ledger that exists and holds a row (writing the header again
\* would change the file), while the ledger of the other month does not exist
C17_Witness ==
    /\ Logged
    /\ last.before.exists
    /\ DataRows(Before) # {}
    /\ \E m \in Months : ~files[m].exists
    /\ \E m \in Months, t \in 1..Len(Times) :
           files[m].exists /\ ensure_file_overwrite(files[m], t) # files[m]

\* the lines _ensure_file_exists writes, at whatever time
HeaderLines ==
    UNION {{FinanceHeader(t)[i] : i \in 1..Len(FinanceHeader(t))} : t \in 1..Len(Times)}

\* the lines of a ledger that log_transaction wrote: its data rows
LoggedRows(lines) == {i \in 1..Len(lines) : lines[i] \notin HeaderLines}

Undone == last.op = "undo"

\* C18: undo_last_transaction removes exactly the last data row of the ledger,
\* whatever its content, and keeps every other line in order; on a ledger
\* without data row (or without file) it returns a not-found result and leaves
\* the file as it is.
C18_UndoRemovesLastRow ==
    Undone =>
        IF last.before.exists /\ LoggedRows(Before) # {}
        THEN /\ After = RemoveAt(Before, MaxOf(LoggedRows(Before)))
             /\ last.result = "Undid last transaction: " \o Before[MaxOf(LoggedRows(Before))]
        ELSE /\ files[last.month] = last.before
             /\ last.result \in {"No transaction file found.",
                                 "No transactions found to undo."}

\* C18's case: an undo on a ledger with three rows of which the last differs
\* from the first
C18_Witness ==
    /\ Undone
    /\ Cardinality(LoggedRows(Before)) = 3
    /\ \E i \in LoggedRows(Before) : Before[i] # Before[MaxOf(LoggedRows(Before))]
    /\ Len(After) = Len(Before) - 1

\* the lines log_transaction finds after its call of _ensure_file_exists
LinesFound == IF last.before.exists THEN Before ELSE FinanceHeader(last.at)

\* C19: a successful log_transaction adds exactly one line at the end of the
\* ledger and leaves every line already in the file unchanged and in its order;
\* it neither merges with nor drops a row, so the same transaction logged twice
\* yields two rows.
C19_LogAppendsOneLine ==
    Logged =>
        /\ StartsWith(last.result, "Transaction logged: ")
        /\ Len(After) = Len(LinesFound) + 1
        /\ IsPrefix(LinesFound, After)
        /\ After[Len(After)] =
               TransactionRow(last.at, last.tx.description, last.tx.amount, "Expense",
                              InferCategory(last.tx.description, last.tx.category), "USD")
        /\ Cardinality(LoggedRows(After)) = Cardinality(LoggedRows(LinesFound)) + 1

\* C19's case: the same transaction was logged twice at the same minute, and
\* the ledger ends with two equal rows
C19_Witness ==
    /\ Logged
    /\ last.before.exists
    /\ Before # <<>>
    /\ Before[Len(Before)] = After[Len(After)]
    /\ Cardinality(LoggedRows(After)) >= 2

\* a table holds its column header and its separator, once each and as
\* written, and no other line that begins like one of them
HeaderIntact(lines, columns, separator) ==
    /\ Cardinality(Occurrences(lines, columns)) = 1
    /\ Cardinality(Occurrences(lines, separator)) = 1
    /\ \A i \in 1..Len(lines) :
           /\ StartsWith(lines[i], "| Date") => lines[i] = columns
           /\ StartsWith(lines[i], "| :---") => lines[i] = separator
    /\ \A i \in Occurrences(lines, columns) : i + 1 \in Occurrences(lines, separator)

\* C20: the header line and the separator line of a ledger never change after
\* the file is created: after any sequence of log_transaction,
\* delete_specific_transaction, undo_last_transaction and log_habit calls the
\* file holds both, once each and unmodified.
C20_HeaderNeverChanges ==
    /\ \A m \in Months :
           files[m].exists => HeaderIntact(files[m].lines, LedgerColumns, LedgerSeparator)
    /\ HeaderIntact(tracker, TrackerColumns, TrackerSeparator)

\* C20's case: a delete whose criteria is empty after normalization, and so
\* matches every line the scan does not skip, removed a line of a ledger
\* without data row
C20_Witness ==
    /\ Deleted
    /\ CleanCriteria(last.criteria) = ""
    /\ LoggedRows(Before) = {}
    /\ Len(After) = Len(Before) - 1

----------------------------------------------------------------------------
(* Claims about rows of another field count, checked under LedgerSpec *)

\* the field count of the last line of the ledger equals the header's
LastRowFits == Len(Fields(After[Len(After)])) = Len(Fields(LedgerColumns))

\* C21: _parse_markdown_table accepts a data row only when its field count
\* equals the header's: a row logged with another field count adds nothing to
\* the records returned, raises nothing and does not end the parse, so the
\* records of the rows before and after it are returned, in file order.
C21_MismatchedRowsDropped ==
    Logged =>
        /\ LastRowFits <=> WellFormed(last.tx)
        /\ IF LastRowFits
           THEN parse_markdown_table(After) =
                    Append(parse_markdown_table(Before), WrittenRecord)
           ELSE parse_markdown_table(After) = parse_markdown_table(Before)

\* C21's case: a ledger whose three rows are a row that fits, a row with a bar
\* in its description, and a row that fits; two records are returned
C21_Witness ==
    /\ Logged
    /\ Cardinality(LoggedRows(After)) = 3
    /\ Len(After) = Len(FinanceHeader(1)) + 3
    /\ LastRowFits
    /\ Len(Fields(After[Len(After) - 1])) > Len(Fields(LedgerColumns))
    /\ Len(Fields(After[Len(After) - 2])) = Len(Fields(LedgerColumns))
    /\ Len(parse_markdown_table(After)) = 2
    /\ parse_markdown_table(After)[2] = WrittenRecord

----------------------------------------------------------------------------
(* Claims about the success statuses, checked under SynonymSpec *)

RECURSIVE SuccessRun(_, _, _)
\* the number of rows of the habit, from row i backwards, whose Status column
\* is a success status, up to the first row of the habit whose status is not
SuccessRun(lines, i, habit) ==
    IF i = 0 THEN 0
    ELSE IF i \notin HabitRows(lines, habit) THEN SuccessRun(lines, i - 1, habit)
    ELSE IF Lower(Fields(lines[i])[3]) \in SuccessStatuses
         THEN 1 + SuccessRun(lines, i - 1, habit)
    ELSE 0

\* C22: the streak computed by log_habit equals the number of most recent rows
\* of that habit, scanned from the newest backwards, whose recorded status is a
\* success status (done, completed, yes, new project started, in any letter
\* case), stopping at the first row of the habit whose status is not.
C22_StreakCountsSuccessRows ==
    \A k \in 1..Len(habitCalls) :
        LET c == habitCalls[k]
        IN  Lower(c.status) \in SuccessStatuses =>
                c.streak = SuccessRun(c.before, Len(c.before), c.habit)

----------------------------------------------------------------------------
(* Claims about the ledger as the tools of the loop see it, checked under LoopSpec *)

\* the data rows of a ledger, in file order
RowSeq(f) == SelectSeq(f.lines, LAMBDA line : line \notin HeaderLines)

OnlyToolRequests ==
    \A i \in 1..Len(events) :
        events[i].ev = "response" => HasToolRequest(events[i].parts)

\* C24: the loop has no iteration bound: a response with a tool request always
\* has the tool executed and the model called again, however many tools were
\* executed before, so the loop is not left while every response holds a tool
\* request; there is no outcome of a cancelled or exceeded loop; once the first
\* send is made, process_message ends exactly when a response holds no tool
\* request or a call to the model raises.
C24_LoopEndsOnlyByAnswerOrFailure ==
    /\ [](/\ outcome.kind \in {"none", "answer", "apology", "raised", "media_error"}
          /\ (events # <<>> /\ OnlyToolRequests /\ ~ModelCallFailed) => pc # "done"
          /\ (events # <<>> /\ pc = "done") =>
                 \/ /\ outcome.kind = "answer"
                    /\ LastEvent.ev = "response" /\ ~HasToolRequest(LastEvent.parts)
                 \/ /\ outcome.kind \in {"apology", "raised"}
                    /\ ModelCallFailed
          /\ (events # <<>> /\ LastEvent.ev = "response"
                /\ ~HasToolRequest(LastEvent.parts)) => pc = "done")
    /\ [][/\ pc = "executing" =>
                /\ pc' = "awaiting"
                /\ Len(events') = Len(events) + 2
                /\ events'[Len(events) + 1].ev = "tool"
          /\ (pc = "awaiting" /\ pc' # "awaiting") =>
                \/ pc' = "executing" /\ HasToolRequest(response')
                \/ pc' = "done" /\ ~HasToolRequest(response') /\ events' # events
                \/ pc' = "done" /\ events' = events /\ outcome'.kind \in {"apology", "raised"}
         ]_vars

\* C24's case: every response to the current message held a tool request, as
\* many tools were executed as the model requests here, and the loop is calling
\* the model again
C24_Witness ==
    /\ pc = "awaiting"
    /\ OnlyToolRequests
    /\ ToolCount = MaxToolCalls
    /\ LastEvent = SentEv("tool_result", LastEvent.result)
    /\ outcome = NoOutcome

----------------------------------------------------------------------------
(* Claims about the monthly files, checked under FinanceSpec *)

\* the month of the clock
CurrentMonth == FmtMonth(Times[now])

\* C25: the finance file is chosen by the current calendar month only:
\* log_transaction, delete_specific_transaction and undo_last_transaction each
\* read and write the file of the current month and leave the files of all
\* other months unchanged, so every row lies in the file of the month of its
\* date.
C25_OnlyCurrentMonthFile ==
    /\ [][/\ \A m \in Months : m # CurrentMonth => files'[m] = files[m]
          /\ last' # last =>
                /\ last'.month = CurrentMonth
                /\ last'.before = files[CurrentMonth]]_vars
    /\ [](/\ last.op # "none" => last.month = FmtMonth(Times[last.at])
          /\ \A m \in Months : \A i \in LoggedRows(files[m].lines) :
                 StartsWith(files[m].lines[i], "| " \o m \o "-"))

\* C25's case: after the month changed, a delete removed a row of the new
\* month's file while the file of the month before holds a row that matches
\* the same criteria, and holds it still
C25_Witness ==
    /\ Deleted
    /\ last.month = FmtMonth(Times[2])
    /\ last.month # FmtMonth(Times[1])
    /\ StartsWith(last.result, "Successfully deleted transaction: ")
    /\ Len(After) = Len(Before) - 1
    /\ files[FmtMonth(Times[1])].exists
    /\ RowsMatching(files[FmtMonth(Times[1])].lines, last.criteria) # {}

----------------------------------------------------------------------------
(* Claims about the requests of one response, checked under LoopSpec *)

\* the tool requests of a response, in part order
Requested(parts) == SelectSeq(parts, LAMBDA part : part.name # "")

\* what the tool request answers when it is executed alone on the ledger as
\* it is: used for the requests that change no file
AnswerOf(part) ==
    IF part.name \notin AvailableTools
    THEN "Error: Tool " \o part.name \o " not found."
    ELSE IF ToolRequired(part.name) \ part.args.names # {}
    THEN "Error executing tool: " \o part.name \o "() missing required argument"
    ELSE ""

\* C26: each model response causes at most one tool invocation: of the tool
\* requests of a response only the first, in part order, is executed and
\* answered, and the next thing the loop does is to call the model again; the
\* other requests are never executed.
C26_OnlyFirstRequestExecuted ==
    /\ ToolCount <= Len(SelectSeq(events, LAMBDA e : e.ev = "response"))
    /\ \A i \in 1..Len(events) :
           (events[i].ev = "response" /\ i < Len(events)) =>
               LET first == Head(Requested(events[i].parts))
               IN  /\ Requested(events[i].parts) # <<>>
                   /\ events[i + 1].ev = "tool"
                   /\ events[i + 1].name = first.name
                   /\ events[i + 1].invoked <=> first.name \in AvailableTools
                   /\ AnswerOf(first) # "" => events[i + 1].result = AnswerOf(first)
                   /\ i + 2 <= Len(events)
                   /\ events[i + 2] = SentEv("tool_result", events[i + 1].result)
                   /\ i + 3 <= Len(events) => events[i + 3].ev = "response"

\* C26's case: a response held two tool requests, for log_transaction and for
\* an unknown tool; log_transaction was executed and wrote its row, its result
\* was sent, and the next response was examined
C26_Witness ==
    \E i \in 1..Len(events) :
        /\ events[i].ev = "response"
        /\ Len(Requested(events[i].parts)) = 2
        /\ Requested(events[i].parts)[1].name = "log_transaction"
        /\ Requested(events[i].parts)[2].name = "send_email"
        /\ i + 3 <= Len(events)
        /\ events[i + 1].name = "log_transaction"
        /\ events[i + 1].changed
        /\ StartsWith(events[i + 2].result, "Transaction logged: ")
        /\ events[i + 3].ev = "response"

----------------------------------------------------------------------------
(* Claims about the rows of other habits, checked under GoalsSpec *)

\* the rows of a tracker whose Habit column is the habit, in file order
OwnRows(lines, habit) ==
    LET own[i \in 0..Len(lines)] ==
            IF i = 0 THEN <<>>
            ELSE IF i \in HabitRows(lines, habit) THEN Append(own[i - 1], lines[i])
            ELSE own[i - 1]
    IN  own[Len(lines)]

\* C27: the streak of a habit depends only on the rows whose Habit column
\* equals that habit: the streak a call computes is the one it computes from
\* those rows alone, so the rows logged for another habit (one whose name
\* contains the habit's name included) neither increase the streak nor end it.
C27_StreakOfOwnRowsOnly ==
    \A k \in 1..Len(habitCalls) :
        LET c == habitCalls[k]
        IN  c.streak = Streak(OwnRows(c.before, c.habit), c.habit, c.status)

----------------------------------------------------------------------------
(* Claims about a criteria without content, checked under FinanceSpec *)

\* C28: delete_specific_transaction deletes nothing when the criteria is empty
\* after normalization (as "$", "USD" or "cop" are): it returns the not-found
\* result and leaves the file unchanged.
C28_EmptyCriteriaDeletesNothing ==
    (last.op = "delete" /\ CleanCriteria(last.criteria) = "") =>
        /\ files[last.month] = last.before
        /\ last.result \in NotFoundResults(last.criteria)

----------------------------------------------------------------------------
(* Claims about the conversations of different senders, checked under LoopSpec *)

\* C29: sessions are isolated by sender: the handling of a message of one
\* sender creates and extends the conversation handle of that sender only; the
\* handle of every other sender is neither created, replaced nor given a turn,
\* in whatever order the messages of the senders arrive, and no two senders
\* hold the same handle.
C29_SessionsIsolatedBySender ==
    /\ [][\A s \in Senders :
              sessions'[s] # sessions[s] =>
                  /\ s = sender'
                  /\ \A t \in Senders \ {s} : sessions'[t] = sessions[t]
                  /\ sessions[s].exists =>
                         /\ sessions'[s].id = sessions[s].id
                         /\ Len(sessions'[s].turns) = Len(sessions[s].turns) + 1
                         /\ IsPrefix(sessions[s].turns, sessions'[s].turns)]_vars
    /\ [](\A s, t \in Senders :
              (s # t /\ sessions[s].exists /\ sessions[t].exists) =>
                  sessions[s].id # sessions[t].id)

\* C29's case: a message of A and then a message of B were handled, each with
\* a tool executed: each sender has its own handle, holding the preamble, the
\* content turn and the tool-result turn of its own message and no more
C29_Witness ==
    /\ handled = 2
    /\ sender = "B"
    /\ sessions["A"].exists /\ sessions["B"].exists
    /\ sessions["A"].id = 1 /\ sessions["B"].id = 2
    /\ Len(sessions["A"].turns) = Len(Preamble) + 2
    /\ Len(sessions["B"].turns) = Len(Preamble) + 2
    /\ ToolCount = 1

====
